---- MODULE Spec2Model ----
(***************************************************************************)
(* Model of message_ix_models.model.material.build.apply_spec: applying a  *)
(* require / remove / add specification to a scenario (the store).         *)
(*                                                                         *)
(* One action, ApplySpec, models one whole call of apply_spec.  The call   *)
(* is synchronous and single-threaded, so it is atomic; the order of the   *)
(* store operations it issues is kept in result.trace and the log records  *)
(* it emits in result.log.                                                 *)
(***************************************************************************)
EXTENDS Integers, Sequences, FiniteSets

VARIABLES
    scenario,   \* the store: sets, parameter tables, unit registry, transaction state
    dedup,      \* store policy: add_set skips an element the set already holds
    spec,       \* the specification: require / remove / add, set name -> list of elements
    data,       \* the data argument: "None" or the name of a callable
    fast,       \* options['fast']
    quiet,      \* options['quiet']
    message,    \* options['message'], or NoOption when the caller gives none
    dry_run,    \* options['dry_run'] of the latest call
    pre,        \* the store as it was when the latest call started
    result,     \* what the latest call produced: outcome, exception, dump, log, trace
    prev,       \* summary of the call before the latest one
    ncalls      \* number of calls made so far

vars == <<scenario, dedup, spec, data, fast, quiet, message, dry_run, pre, result, prev,
          ncalls>>

----------------------------------------------------------------------------
(* Bounds of the model *)

\* apply_spec calls in one behaviour
MaxCalls == 2

\* elements listed in the whole specification (require + remove + add)
MaxSpecElems == 2

----------------------------------------------------------------------------
(* The universe of the model *)

\* scenario.set_list(), in the order the store enumerates it
SetList == <<"technology", "commodity">>

SetNames == {SetList[k] : k \in 1..Len(SetList)}

\* element identifiers, in the order a fresh store holds them
IdList == <<"coal_ppl", "gas_ppl">>

Ids == {IdList[k] : k \in 1..Len(IdList)}

NoId == "-"

\* parameter tables of the store and the sets that index them
ParList == <<"demand", "output">>

ParNames == {ParList[k] : k \in 1..Len(ParList)}

ParDims == [demand |-> {"commodity"}, output |-> {"technology", "commodity"}]

\* An element of a specification: a bare identifier (str) or a Code(id, name)
Str(id) == [isCode |-> FALSE, id |-> id, name |-> id]

MkCode(id, name) == [isCode |-> TRUE, id |-> id, name |-> name]

\* the value of a bare identifier: the str itself
StrValue(element) == element.id

NoElem == Str(NoId)

SetElements == {Str(i) : i \in Ids} \cup {MkCode("gas_ppl", "gas power plant")}

UnitElements == {Str("kg_CO2"), MkCode("kg_CO2", "kilograms of CO2")}

\* set names a specification may mention that the store does not know
UnknownNames == {"node"}

\* the names a specification is keyed by (info.set is a defaultdict: any name
\* has a list): the store's sets, the reserved "unit" and the unknown names
SpecNames == SetNames \cup {"unit"} \cup UnknownNames

ElementsOf(name) == IF name = "unit" THEN UnitElements ELSE SetElements

\* A key of a parameter row: one identifier per indexing set, NoId elsewhere
Key(p, t, c) ==
    [technology |-> IF "technology" \in ParDims[p] THEN t ELSE NoId,
     commodity  |-> IF "commodity" \in ParDims[p] THEN c ELSE NoId]

Row(p, k) == [par |-> p, key |-> k]

----------------------------------------------------------------------------
(* Helpers *)

Range(s) == {s[k] : k \in 1..Len(s)}

Count(s, x) == Cardinality({k \in 1..Len(s) : s[k] = x})

RECURSIVE SumLen(_, _)
SumLen(f, names) ==
    IF names = {} THEN 0
    ELSE LET n == CHOOSE x \in names : TRUE
         IN Len(f[n]) + SumLen(f, names \ {n})

----------------------------------------------------------------------------
(* The running call: the store it works on, the removed-data dump, the log *)
(* records emitted, the store operations issued and the exception raised.  *)

NoExc == [type |-> "None", args |-> <<>>]

\* `raise ValueError`: the exception class is raised without arguments
ValueError == [type |-> "ValueError", args |-> <<>>]

\* the ledger, were it to start a call with a row recorded before
StaleDump == [S \in SetNames |-> <<Row("demand", Key("demand", NoId, "coal_ppl"))>>]

\* dump = {}: no rows recorded for any set
EmptyDump == [S \in SetNames |-> <<>>]

\* Emit, were the quiet option not consulted
Emit_IgnoresQuiet(st, opt, level, msg, S, elem, elems, n) ==
    [st EXCEPT !.log = Append(@,
        [level |-> level, msg |-> msg, set |-> S, elem |-> elem,
         elems |-> elems, n |-> n])]

\* log.setLevel(ERROR if quiet else DEBUG), then log.<level>(...)
\* A record carries what its text carries: the set name, one element, a list
\* of elements or a count; NoId, NoElem, <<>> and 0 where the text has none.
Emit(st, opt, level, msg, S, elem, elems, n) ==
    IF opt.quiet /\ level # "error"
    THEN st
    ELSE [st EXCEPT !.log = Append(@,
            [level |-> level, msg |-> msg, set |-> S, elem |-> elem,
             elems |-> elems, n |-> n])]

\* one operation issued to the store (or to a collaborator working on it)
Did(st, op, S, id, dr) ==
    [st EXCEPT !.trace = Append(@, [op |-> op, set |-> S, id |-> id, dry_run |-> dr])]

----------------------------------------------------------------------------
(* The store and the collaborators *)

\* Scenario.remove_solution: raises ValueError when there is no solution
RemoveSolutionRaises(sc) == ~sc.solution

RemoveSolution(sc) == [sc EXCEPT !.solution = FALSE]

\* ixmp.utils.maybe_check_out: checks out; a store already checked out stays so
MaybeCheckOut(sc) == [sc EXCEPT !.checked_out = TRUE]

\* the store refuses the check-out (it is locked and not yet checked out)
CheckOutRaises(sc) == sc.locked /\ ~sc.checked_out

\* the store fails the commit
CommitRaises(sc) == sc.commit_fails

\* the errors of the store
CheckOutError == [type |-> "CheckOutError", args |-> <<>>]

CommitError == [type |-> "CommitError", args |-> <<>>]

\* Scenario.commit(comment)
Commit(sc, comment) ==
    [sc EXCEPT !.checked_out = FALSE, !.version = @ + 1, !.message = comment]

\* Scenario.add_set(set_name, id) under the store's policy dd (de-duplicate or not)
AddSet(sc, dd, S, id) ==
    IF dd /\ id \in Range(sc.set[S])
    THEN sc
    ELSE [sc EXCEPT !.set[S] = Append(@, id)]

\* Platform.add_unit(id, comment)
AddUnit(sc, id, comment) ==
    [sc EXCEPT !.units = @ \cup {[id |-> id, comment |-> comment]}]

\* Code.__eq__ against a str of the store: by identifier
CodeEq(element, id) == element.id = id

\* a parameter row references id in the role of set S
References(p, key, S, id) == S \in ParDims[p] /\ key[S] = id

\* the rows of all parameter tables that reference id in the role of S, table by table
RECURSIVE Referencing(_, _, _, _)
Referencing(sc, S, id, k) ==
    IF k > Len(ParList) THEN <<>>
    ELSE LET p == ParList[k]
             Hit(key) == References(p, key, S, id)
             hits == SelectSeq(sc.par[p], Hit)
         IN [j \in 1..Len(hits) |-> Row(p, hits[j])] \o Referencing(sc, S, id, k + 1)

\* the parameter tables without the rows that reference id in the role of S
Stripped(sc, S, id) ==
    [sc EXCEPT !.par = [p \in ParNames |->
        LET Keep(key) == ~References(p, key, S, id)
        IN SelectSeq(sc.par[p], Keep)]]

\* strip_par_data(scenario, set_name, element, dry_run, dump)
StripParData(st, S, element, dr) ==
    LET rows == Referencing(st.sc, S, element.id, 1)
    IN [st EXCEPT !.dump[S] = @ \o rows,
                  !.sc = IF dr THEN @ ELSE Stripped(@, S, element.id)]

\* add_par_data(scenario, data, dry_run): merge rows into their tables
\* (rows k.. of the result, in their order; a key the table holds, or that an
\* earlier row brought, is not added again)
Merged(sc, rows, k) ==
    [sc EXCEPT !.par = [p \in ParNames |->
        LET new == {i \in k..Len(rows) :
                        /\ rows[i].par = p
                        /\ rows[i].key \notin Range(sc.par[p])
                        /\ \A j \in k..(i - 1) : rows[j] # rows[i]}
            Nth(n) == CHOOSE i \in new : Cardinality({j \in new : j <= i}) = n
        IN sc.par[p] \o [n \in 1..Cardinality(new) |-> rows[Nth(n)].key]]]

AddParData(sc, res, dr) == IF dr THEN sc ELSE Merged(sc, res.rows, 1)

\* the data callables of the model and what they return
DataKinds == {"None", "returns_rows"}

\* callables that return nothing (None) or a mapping without keys
QuietDataKinds == {"returns_nothing", "returns_empty"}

\* data_ammonia.gen_data used as the data callable.  What it does depends on
\* the configuration and the data files it reads; three environments:
\* complete (thirteen technologies configured, 72 rows in Sheet1, a trade
\* sheet listing the output of trade_NFert, a demand sheet with one row)
GenDataKind == "gen_data"

\* the sheets hold no rows: read_demand raises at line 554 (input_fuel[2] of
\* an empty selection), called at line 138
GenDataNoRowsKind == "gen_data_norows"

\* no CCS technology configured: read_data_ccs raises at line 764 (no
\* technology for the 52 rows of the CCS sheet), called through gen_data_ccs
\* at line 367
GenDataNoCcsKind == "gen_data_no_ccs"

GenDataKinds == {GenDataKind, GenDataNoRowsKind, GenDataNoCcsKind}

\* input_fuel[2] (line 554) where the selection of line 539 is empty: KeyError(2)
GenDataKeyError == [type |-> "KeyError", args |-> <<2>>]

\* data.assign(technology=tech_values, ...) (line 764) with no technology
\* for the 52 rows of the CCS sheet
GenDataCcsError ==
    [type |-> "ValueError",
     args |-> <<"Length of values (0) does not match length of index (52)">>]

\* config["technology"]["add"] (line 28) of the complete environment
config_technology_add ==
    <<"biomass_NH3", "electr_NH3", "gas_NH3", "coal_NH3", "fueloil_NH3",
      "NH3_to_N_fertil", "trade_NFert", "export_NFert", "import_NFert",
      "biomass_NH3_ccs", "gas_NH3_ccs", "coal_NH3_ccs", "fueloil_NH3_ccs">>

\* the keys of the mapping gen_data returns in the complete environment
gen_data_keys ==
    {"capacity_factor", "demand", "emission_factor", "fix_cost",
     "growth_activity_lo", "historical_activity", "historical_new_capacity",
     "initial_activity_lo", "input", "inv_cost", "land_input", "output",
     "technical_lifetime", "var_cost"}

\* line 297: the commodity of every row made from the trade sheet
trade_commodity == "Fertilizer Use|Nitrogen"

\* the commodity of the rows of the demand sheet (the sheet's own content)
demand_commodity == "i_feed"

\* the parameters of category "output", in the order of read_data (lines 673-675)
output_params == <<"output_NH3", "output_water", "output_heat">>

\* lines 50-54 of gen_data and 422-426 of gen_data_ccs: output_commodity_dict
output_commodity_dict(ccs) ==
    [param \in {"output_NH3", "output_heat", "output_water"} |->
        IF param = "output_NH3" THEN "NH3"
        ELSE IF param = "output_heat" THEN "d_heat"
        ELSE IF ccs THEN "" ELSE "wastewater"]

\* lines 102-109: the commodity of the output rows of technology t; gen_data
\* (not gen_data_ccs) renames the NH3 output of NH3_to_N_fertil
OutputCommodity(t, param, ccs) ==
    IF ~ccs /\ t = "NH3_to_N_fertil" /\ param = "output_NH3"
    THEN trade_commodity
    ELSE output_commodity_dict(ccs)[param]

\* lines 92-127 (and 447-472): one output row per technology and parameter
OutputRows(techs, ccs) ==
    [k \in 1..(Len(techs) * Len(output_params)) |->
        LET t == techs[((k - 1) \div Len(output_params)) + 1]
            param == output_params[((k - 1) % Len(output_params)) + 1]
        IN Row("output", Key("output", t, OutputCommodity(t, param, ccs)))]

\* data_ammonia.py lines 274-276: the trade technologies
newtechnames_trd == <<"trade_NFert">>

newtechnames_imp == <<"import_NFert">>

newtechnames_exp == <<"export_NFert">>

\* data_ammonia.py lines 282-287: cat_add, the rows (type_tec, technology)
cat_add == <<<<"import", newtechnames_imp[1]>>, <<"export", newtechnames_exp[1]>>>>

\* the rows gen_data returns in the tables of the store, for one region and
\* one year: the output of the first six technologies (lines 92-127), of
\* trade_NFert (lines 305-336) and of the CCS technologies (lines 366-368),
\* and the row of the demand sheet (line 189)
GenDataRows ==
    OutputRows(SubSeq(config_technology_add, 1, 6), FALSE)
        \o <<Row("output", Key("output", newtechnames_trd[1], trade_commodity))>>
        \o OutputRows(SubSeq(config_technology_add, 10, Len(config_technology_add)), TRUE)
        \o <<Row("demand", Key("demand", NoId, demand_commodity))>>

\* Scenario.add_set(set_name, list): the elements of the list are appended
\* one after the other, under the store's policy
RECURSIVE AddSetAll(_, _, _, _, _)
AddSetAll(sc, dd, S, ids, k) ==
    IF k > Len(ids) THEN sc
    ELSE AddSetAll(AddSet(sc, dd, S, ids[k]), dd, S, ids, k + 1)

\* Scenario.add_set("cat_tec", cat_add): the mapping set, kept beside the sets
\* of the set list since no specification of the model mentions it
AddCatTec(sc, dd, rows) ==
    LET New(r) == ~dd \/ r \notin Range(sc.cat_tec)
    IN [sc EXCEPT !.cat_tec = @ \o SelectSeq(rows, New)]

\* lines 278-288: two calls of add_set, the first with the list of the three
\* trade technologies, the second with the table cat_add; neither is given
\* dry_run, which gen_data does not consult
AddTradeSets(st, dd) ==
    LET st1 == [Did(st, "add_set", "technology", NoId, FALSE)
                    EXCEPT !.sc = AddSetAll(@, dd, "technology",
                                      newtechnames_trd \o newtechnames_imp
                                          \o newtechnames_exp, 1)]
    IN [Did(st1, "add_set", "cat_tec", NoId, FALSE)
            EXCEPT !.sc = AddCatTec(@, dd, cat_add)]

\* data_ammonia.gen_data(scenario, dry_run): raises at line 138 before it
\* touches the scenario when the sheets hold no rows; adds the trade sets and
\* then raises at line 367 when no CCS technology is configured; adds the
\* trade sets and returns otherwise.  dr, its dry_run, is not read.
GenData(st, dat, dd, dr) ==
    IF dat = GenDataNoRowsKind THEN [st EXCEPT !.exc = GenDataKeyError]
    ELSE IF dat = GenDataNoCcsKind
         THEN [AddTradeSets(st, dd) EXCEPT !.exc = GenDataCcsError]
    ELSE AddTradeSets(st, dd)

\* the call data(scenario, dry_run=dry_run) of line 141: what it does to the
\* store and the exception it ends with
DataCall(st, dat, dd, dr) ==
    IF dat \in GenDataKinds THEN GenData(st, dat, dd, dr) ELSE st

\* no value is returned by a call that raises
NoDataResult == [isNone |-> TRUE, pars |-> {}, rows |-> <<>>]

DataResult(dat) ==
    IF dat = "returns_nothing" THEN [isNone |-> TRUE, pars |-> {}, rows |-> <<>>]
    ELSE IF dat = "returns_empty" THEN [isNone |-> FALSE, pars |-> {}, rows |-> <<>>]
    ELSE IF dat = GenDataKind
         THEN [isNone |-> FALSE, pars |-> gen_data_keys, rows |-> GenDataRows]
    ELSE IF dat \in GenDataKinds THEN NoDataResult
    ELSE [isNone |-> FALSE, pars |-> {"output"},
          rows |-> <<Row("output", Key("output", "gas_ppl", "gas_ppl"))>>]

\* `if result:` -- a mapping is true when it has at least one key
Truthy(res) == ~res.isNone /\ res.pars # {}

----------------------------------------------------------------------------
(* apply_spec *)

\* the three entries of a specification
Parts == {"require", "remove", "add"}

\* info.set[name] looked up in the entries parts of the specification (lines
\* 72 and 134): a name without an entry gets one, with an empty list
Looked(st, parts, name) ==
    [st EXCEPT !.spec.keys =
        [part \in Parts |-> IF part \in parts THEN @[part] \cup {name} ELSE @[part]]]

\* `element not in base` (line 90): a str compares by value, a Code by Code.__eq__
NotInBase(element, base) ==
    IF element.isCode
    THEN \A k \in 1..Len(base) : ~CodeEq(element, base[k])
    ELSE \A k \in 1..Len(base) : base[k] # StrValue(element)

\* FirstMissing, were the loop to end after its first element
FirstMissing_OnlyFirst(require, base) ==
    IF Len(require) > 0 /\ NotInBase(require[1], base) THEN 1 ELSE 0

\* FirstMissing, were the error kept for the end of the loop (the last one wins)
FirstMissing_Last(require, base) ==
    LET missing == {k \in 1..Len(require) : NotInBase(require[k], base)}
    IN IF missing = {} THEN 0
       ELSE CHOOSE k \in missing : \A j \in missing : k >= j

\* the loop over require (lines 89-92): index of the element that raises, 0 if none
FirstMissing(require, base) ==
    LET missing == {k \in 1..Len(require) : NotInBase(require[k], base)}
    IN IF missing = {} THEN 0
       ELSE CHOOSE k \in missing : \A j \in missing : k <= j

\* Prepare, were the ValueError of remove_solution not caught
Prepare_PropagatesValueError(st) ==
    LET st1 == Did(st, "remove_solution", NoId, NoId, FALSE)
        st2 == Did([st1 EXCEPT !.sc = RemoveSolution(@)], "check_out", NoId, NoId, FALSE)
    IN IF RemoveSolutionRaises(st1.sc) THEN [st1 EXCEPT !.exc = ValueError]
       ELSE IF CheckOutRaises(st2.sc) THEN [st2 EXCEPT !.exc = CheckOutError]
       ELSE [st2 EXCEPT !.sc = MaybeCheckOut(@)]

\* lines 61-66: discard the solution, tolerating its absence, and check out;
\* the ValueError of remove_solution is caught, an error of the check-out is not
Prepare(st) ==
    LET st1 == Did(st, "remove_solution", NoId, NoId, FALSE)
        sc1 == IF RemoveSolutionRaises(st1.sc) THEN st1.sc ELSE RemoveSolution(st1.sc)
        st2 == Did([st1 EXCEPT !.sc = sc1], "check_out", NoId, NoId, FALSE)
    IN IF CheckOutRaises(st2.sc)
       THEN [st2 EXCEPT !.exc = CheckOutError]
       ELSE [st2 EXCEPT !.sc = MaybeCheckOut(@)]

\* RemoveLoop, were it to leave the loop after the first element
RemoveLoop_OnlyFirst(st, opt, S, remove, k) ==
    IF k > Len(remove) \/ k > 1 THEN st
    ELSE StripParData(
            Did(Emit(st, opt, "info", "Remove", NoId, remove[k], <<>>, 0),
                "strip_par_data", S, remove[k].id, opt.dry_run),
            S, remove[k], opt.dry_run)

\* lines 101-113: strip the parameter data of every element of remove
RECURSIVE RemoveLoop(_, _, _, _, _)
RemoveLoop(st, opt, S, remove, k) ==
    IF k > Len(remove) THEN st
    ELSE LET element == remove[k]
             st1 == IF opt.fast
                    THEN Emit(st, opt, "info", "Skip removing (fast=True)",
                              NoId, element, <<>>, 0)
                    ELSE StripParData(
                            Did(Emit(st, opt, "info", "Remove", NoId, element, <<>>, 0),
                                "strip_par_data", S, element.id, opt.dry_run),
                            S, element, opt.dry_run)
         IN RemoveLoop(st1, opt, S, remove, k + 1)

\* RemoveStep, were the fast option not consulted
RemoveStep_IgnoresFast(st, opt, S, remove) ==
    RemoveLoop(st, [opt EXCEPT !.fast = FALSE], S, remove, 1)

\* lines 96-113: skip the removal altogether when fast
RemoveStep(st, opt, S, remove) ==
    IF opt.fast
    THEN Emit(st, opt, "info", "Skip removing parameter values", NoId, NoElem, <<>>, 0)
    ELSE RemoveLoop(st, opt, S, remove, 1)

\* AddLoop, were a Code added under its name
RECURSIVE AddLoop_UsesName(_, _, _, _, _)
AddLoop_UsesName(st, dd, S, add, k) ==
    IF k > Len(add) THEN st
    ELSE LET element == add[k]
             id == IF element.isCode THEN element.name ELSE StrValue(element)
             st1 == Did(st, "add_set", S, id, FALSE)
         IN AddLoop_UsesName([st1 EXCEPT !.sc = AddSet(@, dd, S, id)], dd, S, add, k + 1)

\* AddLoop, were an element the set already holds not added again
RECURSIVE AddLoop_SkipsExisting(_, _, _, _, _)
AddLoop_SkipsExisting(st, dd, S, add, k) ==
    IF k > Len(add) THEN st
    ELSE LET element == add[k]
             id == IF element.isCode THEN element.id ELSE StrValue(element)
             st1 == Did(st, "add_set", S, id, FALSE)
         IN IF id \in Range(st.sc.set[S])
            THEN AddLoop_SkipsExisting(st, dd, S, add, k + 1)
            ELSE AddLoop_SkipsExisting([st1 EXCEPT !.sc = AddSet(@, dd, S, id)],
                                       dd, S, add, k + 1)

\* lines 118-122: add_set for every element of add, by Code.id or as given
RECURSIVE AddLoop(_, _, _, _, _)
AddLoop(st, dd, S, add, k) ==
    IF k > Len(add) THEN st
    ELSE LET element == add[k]
             id == IF element.isCode THEN element.id ELSE StrValue(element)
             st1 == Did(st, "add_set", S, id, FALSE)
         IN AddLoop([st1 EXCEPT !.sc = AddSet(@, dd, S, id)], dd, S, add, k + 1)

\* AddStep, were the elements added under dry_run too
AddStep_IgnoresDryRun(st, opt, dd, S, add) == AddLoop(st, dd, S, add, 1)

\* AddStep, were the elements not added under fast either
AddStep_SkipsWhenFast(st, opt, dd, S, add) ==
    IF ~opt.dry_run /\ ~opt.fast THEN AddLoop(st, dd, S, add, 1) ELSE st

\* lines 116-122: add the elements unless dry_run
AddStep(st, opt, dd, S, add) ==
    IF ~opt.dry_run THEN AddLoop(st, dd, S, add, 1) ELSE st

\* ProcessSet, were the required elements not checked under dry_run
ProcessSet_DryRunSkipsCheck(st0, sp, opt, dd, S) ==
    LET st == Looked(st0, Parts, S)
        check == Len(sp.require[S]) + Len(sp.remove[S]) + Len(sp.add[S])
        base == st.sc.set[S]
        st1 == Emit(Emit(Did(st, "set", S, NoId, FALSE),
                         opt, "info", "Set", S, NoElem, <<>>, 0),
                    opt, "info", "elements", NoId, NoElem, <<>>, Len(base))
        require == sp.require[S]
        m == IF opt.dry_run THEN 0 ELSE FirstMissing(require, base)
        st2 == IF Len(require) > 0
               THEN Emit(st1, opt, "info", "Check required elements",
                         NoId, NoElem, <<>>, Len(require))
               ELSE st1
        st3 == RemoveStep(st2, opt, S, sp.remove[S])
        add == sp.add[S]
        st4 == AddStep(st3, opt, dd, S, add)
        st5 == IF Len(add) > 0
               THEN Emit(Emit(st4, opt, "info", "Add element(s)",
                              NoId, NoElem, <<>>, Len(add)),
                         opt, "debug", "elements added", NoId, NoElem, add, 0)
               ELSE st4
    IN IF check = 0 THEN st
       ELSE IF m # 0
            THEN [Emit(st1, opt, "error", "not found", NoId, require[m], <<>>, 0)
                    EXCEPT !.exc = ValueError]
            ELSE Emit(st5, opt, "info", "---", NoId, NoElem, <<>>, 0)

\* ProcessSet, were the elements of spec.add appended before the required
\* elements are checked
ProcessSet_AddsBeforeCheck(st0, sp, opt, dd, S) ==
    LET st == Looked(st0, Parts, S)
        check == Len(sp.require[S]) + Len(sp.remove[S]) + Len(sp.add[S])
        st1 == Emit(Emit(Did(st, "set", S, NoId, FALSE),
                         opt, "info", "Set", S, NoElem, <<>>, 0),
                    opt, "info", "elements", NoId, NoElem, <<>>, Len(st.sc.set[S]))
        add == sp.add[S]
        st2 == AddStep(st1, opt, dd, S, add)
        base == st2.sc.set[S]
        require == sp.require[S]
        m == FirstMissing(require, base)
        st3 == IF Len(require) > 0
               THEN Emit(st2, opt, "info", "Check required elements",
                         NoId, NoElem, <<>>, Len(require))
               ELSE st2
        st4 == RemoveStep(st3, opt, S, sp.remove[S])
        st5 == IF Len(add) > 0
               THEN Emit(Emit(st4, opt, "info", "Add element(s)",
                              NoId, NoElem, <<>>, Len(add)),
                         opt, "debug", "elements added", NoId, NoElem, add, 0)
               ELSE st4
    IN IF check = 0 THEN st
       ELSE IF m # 0
            THEN [Emit(st2, opt, "error", "not found", NoId, require[m], <<>>, 0)
                    EXCEPT !.exc = ValueError]
            ELSE Emit(st5, opt, "info", "---", NoId, NoElem, <<>>, 0)

\* ProcessSet, were the elements of spec.add appended before those of
\* spec.remove are stripped
ProcessSet_AddsBeforeStrip(st0, sp, opt, dd, S) ==
    LET st == Looked(st0, Parts, S)
        check == Len(sp.require[S]) + Len(sp.remove[S]) + Len(sp.add[S])
        base == st.sc.set[S]
        st1 == Emit(Emit(Did(st, "set", S, NoId, FALSE),
                         opt, "info", "Set", S, NoElem, <<>>, 0),
                    opt, "info", "elements", NoId, NoElem, <<>>, Len(base))
        require == sp.require[S]
        m == FirstMissing(require, base)
        st2 == IF Len(require) > 0
               THEN Emit(st1, opt, "info", "Check required elements",
                         NoId, NoElem, <<>>, Len(require))
               ELSE st1
        add == sp.add[S]
        st3 == AddStep(st2, opt, dd, S, add)
        st4 == RemoveStep(st3, opt, S, sp.remove[S])
        st5 == IF Len(add) > 0
               THEN Emit(Emit(st4, opt, "info", "Add element(s)",
                              NoId, NoElem, <<>>, Len(add)),
                         opt, "debug", "elements added", NoId, NoElem, add, 0)
               ELSE st4
    IN IF check = 0 THEN st
       ELSE IF m # 0
            THEN [Emit(st1, opt, "error", "not found", NoId, require[m], <<>>, 0)
                    EXCEPT !.exc = ValueError]
            ELSE Emit(st5, opt, "info", "---", NoId, NoElem, <<>>, 0)

\* ProcessSet, were a set the specification does not mention processed too
ProcessSet_NoFilter(st0, sp, opt, dd, S) ==
    LET st == Looked(st0, Parts, S)
        base == st.sc.set[S]
        st1 == Emit(Emit(Did(st, "set", S, NoId, FALSE),
                         opt, "info", "Set", S, NoElem, <<>>, 0),
                    opt, "info", "elements", NoId, NoElem, <<>>, Len(base))
        require == sp.require[S]
        m == FirstMissing(require, base)
        st2 == IF Len(require) > 0
               THEN Emit(st1, opt, "info", "Check required elements",
                         NoId, NoElem, <<>>, Len(require))
               ELSE st1
        st3 == RemoveStep(st2, opt, S, sp.remove[S])
        add == sp.add[S]
        st4 == AddStep(st3, opt, dd, S, add)
        st5 == IF Len(add) > 0
               THEN Emit(Emit(st4, opt, "info", "Add element(s)",
                              NoId, NoElem, <<>>, Len(add)),
                         opt, "debug", "elements added", NoId, NoElem, add, 0)
               ELSE st4
    IN IF m # 0
       THEN [Emit(st1, opt, "error", "not found", NoId, require[m], <<>>, 0)
               EXCEPT !.exc = ValueError]
       ELSE Emit(st5, opt, "info", "---", NoId, NoElem, <<>>, 0)

\* lines 71-128: one iteration of the loop over scenario.set_list()
ProcessSet(st0, sp, opt, dd, S) ==
    LET st == Looked(st0, Parts, S)
        check == Len(sp.require[S]) + Len(sp.remove[S]) + Len(sp.add[S])
        base == st.sc.set[S]
        st1 == Emit(Emit(Did(st, "set", S, NoId, FALSE),
                         opt, "info", "Set", S, NoElem, <<>>, 0),
                    opt, "info", "elements", NoId, NoElem, <<>>, Len(base))
        require == sp.require[S]
        m == FirstMissing(require, base)
        st2 == IF Len(require) > 0
               THEN Emit(st1, opt, "info", "Check required elements",
                         NoId, NoElem, <<>>, Len(require))
               ELSE st1
        st3 == RemoveStep(st2, opt, S, sp.remove[S])
        add == sp.add[S]
        st4 == AddStep(st3, opt, dd, S, add)
        st5 == IF Len(add) > 0
               THEN Emit(Emit(st4, opt, "info", "Add element(s)",
                              NoId, NoElem, <<>>, Len(add)),
                         opt, "debug", "elements added", NoId, NoElem, add, 0)
               ELSE st4
    IN IF check = 0 THEN st
       ELSE IF m # 0
            THEN [Emit(st1, opt, "error", "not found", NoId, require[m], <<>>, 0)
                    EXCEPT !.exc = ValueError]
            ELSE Emit(st5, opt, "info", "---", NoId, NoElem, <<>>, 0)

\* SetLoop, were the remaining sets still processed after a failed check
RECURSIVE SetLoop_GoesOn(_, _, _, _, _)
SetLoop_GoesOn(st, sp, opt, dd, k) ==
    IF k > Len(SetList) THEN st
    ELSE LET st1 == ProcessSet([st EXCEPT !.exc = NoExc], sp, opt, dd, SetList[k])
         IN SetLoop_GoesOn(IF st.exc # NoExc THEN [st1 EXCEPT !.exc = st.exc] ELSE st1,
                           sp, opt, dd, k + 1)

\* SetLoop, were the required elements of the names the store does not know
\* checked too, against an empty set
RECURSIVE SetLoop_ChecksUnknown(_, _, _, _, _)
SetLoop_ChecksUnknown(st, sp, opt, dd, k) ==
    IF st.exc # NoExc THEN st
    ELSE IF k > Len(SetList)
         THEN IF \E N \in UnknownNames : sp.require[N] # <<>>
              THEN LET N == CHOOSE M \in UnknownNames : sp.require[M] # <<>>
                   IN [Emit(st, opt, "error", "not found", NoId, sp.require[N][1], <<>>, 0)
                         EXCEPT !.exc = ValueError]
              ELSE st
         ELSE SetLoop_ChecksUnknown(ProcessSet(st, sp, opt, dd, SetList[k]),
                                    sp, opt, dd, k + 1)

\* line 70: for set_name in scenario.set_list(); an exception ends the loop
RECURSIVE SetLoop(_, _, _, _, _)
SetLoop(st, sp, opt, dd, k) ==
    IF k > Len(SetList) \/ st.exc # NoExc THEN st
    ELSE SetLoop(ProcessSet(st, sp, opt, dd, SetList[k]), sp, opt, dd, k + 1)

\* N_removed, were the sets counted instead of their rows
N_removed_CountsSets(dump) == Cardinality({S \in SetNames : dump[S] # <<>>})

\* line 130: N_removed = sum(len(d) for d in dump.values())
N_removed(dump) == SumLen(dump, SetNames)

\* UnitLoop, were the identifier passed as the comment too
RECURSIVE UnitLoop_CommentIsId(_, _, _, _)
UnitLoop_CommentIsId(st, opt, units, k) ==
    IF k > Len(units) THEN st
    ELSE LET st1 == Did(Emit(st, opt, "info", "Add unit", NoId, Str(units[k].id), <<>>, 0),
                        "add_unit", "unit", units[k].id, FALSE)
         IN UnitLoop_CommentIsId([st1 EXCEPT !.sc = AddUnit(@, units[k].id, units[k].id)],
                                 opt, units, k + 1)

\* UnitLoop, were the registration skipped under dry_run
RECURSIVE UnitLoop_HonoursDryRun(_, _, _, _)
UnitLoop_HonoursDryRun(st, opt, units, k) ==
    IF k > Len(units) THEN st
    ELSE LET st1 == Emit(st, opt, "info", "Add unit", NoId, Str(units[k].id), <<>>, 0)
             st2 == Did(st1, "add_unit", "unit", units[k].id, FALSE)
         IN UnitLoop_HonoursDryRun(
                IF opt.dry_run THEN st1
                ELSE [st2 EXCEPT !.sc = AddUnit(@, units[k].id, units[k].name)],
                opt, units, k + 1)

\* lines 134-137: register every unit of spec['add'], a str promoted to a Code
RECURSIVE UnitLoop(_, _, _, _)
UnitLoop(st, opt, units, k) ==
    IF k > Len(units) THEN st
    ELSE LET unit == IF ~units[k].isCode
                     THEN MkCode(units[k].id, units[k].id)
                     ELSE units[k]
             st1 == Did(Emit(st, opt, "info", "Add unit", NoId, Str(unit.id), <<>>, 0),
                        "add_unit", "unit", unit.id, FALSE)
         IN UnitLoop([st1 EXCEPT !.sc = AddUnit(@, unit.id, unit.name)],
                     opt, units, k + 1)

\* AddData, were the result merged whatever its truth value
AddData_MergesAlways(st, dat, opt, dd) ==
    IF dat = "None" THEN st
    ELSE LET st1 == DataCall(Did(st, "data", NoId, NoId, opt.dry_run), dat, dd,
                             opt.dry_run)
         IN IF st1.exc # NoExc THEN st1
            ELSE [Did(st1, "add_par_data", NoId, NoId, opt.dry_run)
                    EXCEPT !.sc = AddParData(@, DataResult(dat), opt.dry_run)]

\* lines 140-143: call data(scenario, dry_run) and merge what it returns
AddData(st, dat, opt, dd) ==
    IF dat = "None" THEN st
    ELSE LET res == DataResult(dat)
             st1 == DataCall(Did(st, "data", NoId, NoId, opt.dry_run), dat, dd,
                             opt.dry_run)
         IN IF st1.exc # NoExc THEN st1
            ELSE IF Truthy(res)
            THEN [Did(st1, "add_par_data", NoId, NoId, opt.dry_run)
                    EXCEPT !.sc = AddParData(@, res, opt.dry_run)]
            ELSE st1

\* f"{__name__}.apply_spec()"
DefaultMessage == "message_ix_models.model.material.build.apply_spec()"

\* an option the caller did not give
NoOption == "(not given)"

\* MessageOf, were the message option ignored
MessageOf_AlwaysDefault(opt) == DefaultMessage

\* options.get('message', f"{__name__}.apply_spec()")
MessageOf(opt) == IF opt.message = NoOption THEN DefaultMessage ELSE opt.message

\* Committed, were the error of the commit caught and dropped
Committed_SwallowsError(st, opt) ==
    LET st1 == Did(st, "commit", NoId, MessageOf(opt), FALSE)
    IN IF CommitRaises(st1.sc) THEN st1
       ELSE [st1 EXCEPT !.sc = Commit(@, MessageOf(opt))]

\* the commit of line 148: the store may refuse it, and its error is not caught
Committed(st, opt) ==
    LET st1 == Did(st, "commit", NoId, MessageOf(opt), FALSE)
    IN IF CommitRaises(st1.sc)
       THEN [st1 EXCEPT !.exc = CommitError]
       ELSE [st1 EXCEPT !.sc = Commit(@, MessageOf(opt))]

\* Finalize, were the commit made under dry_run too
Finalize_AlwaysCommits(st, opt) ==
    Committed(Emit(st, opt, "info", "Commit results.", NoId, NoElem, <<>>, 0), opt)

\* lines 146-148: commit unless dry_run
Finalize(st, opt) ==
    LET st1 == Emit(st, opt, "info", "Commit results.", NoId, NoElem, <<>>, 0)
    IN IF ~opt.dry_run THEN Committed(st1, opt) ELSE st1

\* ApplySpecCall, were the sets and tables restored when the check fails
ApplySpecCall_RollsBack(sc, sp, dat, opt, dd) ==
    LET st0 == [sc |-> sc, spec |-> sp, dump |-> EmptyDump, log |-> <<>>,
                trace |-> <<>>, exc |-> NoExc]
        st1 == IF ~opt.dry_run THEN Prepare(st0) ELSE st0
        st2 == SetLoop(st1, sp, opt, dd, 1)
        st3 == Emit(st2, opt, "info", "parameter elements removed", NoId, NoElem,
                    <<>>, N_removed(st2.dump))
        st4 == UnitLoop(Looked(st3, {"add"}, "unit"), opt, sp.add["unit"], 1)
        st5 == AddData(st4, dat, opt, dd)
    IN IF st2.exc # NoExc THEN [st2 EXCEPT !.sc = st1.sc]
       ELSE IF st5.exc # NoExc THEN st5
       ELSE Finalize(st5, opt)

\* apply_spec(scenario, spec, data, **options): the state the call ends in
ApplySpecCall(sc, sp, dat, opt, dd) ==
    LET st0 == [sc |-> sc, spec |-> sp, dump |-> EmptyDump, log |-> <<>>,
                trace |-> <<>>, exc |-> NoExc]
        st1 == IF ~opt.dry_run THEN Prepare(st0) ELSE st0
        st2 == SetLoop(st1, sp, opt, dd, 1)
        st3 == Emit(st2, opt, "info", "parameter elements removed", NoId, NoElem,
                    <<>>, N_removed(st2.dump))
        st4 == UnitLoop(Looked(st3, {"add"}, "unit"), opt, sp.add["unit"], 1)
        st5 == AddData(st4, dat, opt, dd)
    IN IF st2.exc # NoExc THEN st2
       ELSE IF st5.exc # NoExc THEN st5
       ELSE Finalize(st5, opt)

----------------------------------------------------------------------------
(* The specifications applied *)

EmptyInfo == [n \in SpecNames |-> <<>>]

\* A specification: under require, remove and add the list of every name
\* (what info.set[name] yields: the list kept under the name, the empty list
\* for a name that has no entry), and under keys the names that have an entry
\* in each of the three (info.set is a defaultdict: a name gets its entry,
\* an empty list, when it is first looked up)
EmptySpec ==
    [require |-> EmptyInfo, remove |-> EmptyInfo, add |-> EmptyInfo,
     keys |-> [part \in Parts |-> {}]]

\* the entries of a specification that name elements: every set under each of
\* require / remove / add, and the units under add
Slots ==
    {<<part, n>> : part \in {"require", "remove", "add"}, n \in SetNames}
        \cup {<<"add", "unit">>}

Extended(sp, slot, e) ==
    [sp EXCEPT ![slot[1]][slot[2]] = Append(@, e),
               !.keys[slot[1]] = @ \cup {slot[2]}]

\* the specifications that list exactly n elements
RECURSIVE SpecsOfSize(_)
SpecsOfSize(n) ==
    IF n = 0 THEN {EmptySpec}
    ELSE UNION {{Extended(sp, slot, e) : e \in ElementsOf(slot[2])} :
                    sp \in SpecsOfSize(n - 1), slot \in Slots}

Specs == UNION {SpecsOfSize(n) : n \in 0..MaxSpecElems}

\* the entries under the names the store does not know, "unit" under require
\* and remove included
UnknownSlots ==
    {<<part, n>> : part \in {"require", "remove", "add"}, n \in UnknownNames}
        \cup {<<"require", "unit">>, <<"remove", "unit">>}

\* the specifications of exactly n elements that also use the unknown entries
RECURSIVE WideSpecsOfSize(_)
WideSpecsOfSize(n) ==
    IF n = 0 THEN {EmptySpec}
    ELSE UNION {{Extended(sp, slot, e) : e \in ElementsOf(slot[2])} :
                    sp \in WideSpecsOfSize(n - 1), slot \in Slots \cup UnknownSlots}

WideSpecs == UNION {WideSpecsOfSize(n) : n \in 0..MaxSpecElems}

----------------------------------------------------------------------------
(* The stores a behaviour starts from *)

NoMessage == ""

\* every key the sets of the store allow, table by table
DenseTable(p, sets) ==
    IF p = "demand"
    THEN [k \in 1..Len(sets["commodity"]) |-> Key(p, NoId, sets["commodity"][k])]
    ELSE LET nt == Len(sets["technology"])
             nc == Len(sets["commodity"])
         IN [k \in 1..(nt * nc) |->
                Key(p, sets["technology"][((k - 1) \div nc) + 1],
                       sets["commodity"][((k - 1) % nc) + 1])]

\* a committed, solved store whose sets hold the first n identifiers; its
\* parameter tables are empty or hold one row for every key
InitStore(n, withData) ==
    LET sets == [S \in SetNames |-> SubSeq(IdList, 1, n)]
    IN [set |-> sets,
        par |-> [p \in ParNames |-> IF withData THEN DenseTable(p, sets) ELSE <<>>],
        cat_tec |-> <<>>,
        units |-> {},
        solution |-> TRUE,
        checked_out |-> FALSE,
        locked |-> FALSE,
        commit_fails |-> FALSE,
        version |-> 0,
        message |-> NoMessage]

InitStores == {InitStore(n, w) : n \in 0..Len(IdList), w \in BOOLEAN}

NoResult ==
    [outcome |-> "none", exc |-> NoExc, dump |-> EmptyDump, log |-> <<>>, trace |-> <<>>]

NoPrev == [outcome |-> "none", dry_run |-> FALSE, pre |-> InitStore(0, FALSE)]

Init ==
    /\ scenario \in InitStores
    /\ dedup \in BOOLEAN
    /\ spec \in Specs
    /\ data \in DataKinds
    /\ fast \in BOOLEAN
    /\ quiet = FALSE
    /\ message = NoOption
    /\ dry_run = FALSE
    /\ pre = scenario
    /\ result = NoResult
    /\ prev = NoPrev
    /\ ncalls = 0

\* one call apply_spec(scenario, spec, data, dry_run=d, fast=fast, quiet=quiet
\* [, message=message])
ApplySpec(d) ==
    /\ ncalls < MaxCalls
    /\ LET opt == [dry_run |-> d, fast |-> fast, quiet |-> quiet, message |-> message]
       IN \E st \in {ApplySpecCall(scenario, spec, data, opt, dedup)} :
            /\ scenario' = st.sc
            /\ spec' = st.spec
            /\ result' = [outcome |-> IF st.exc = NoExc THEN "done" ELSE "failed",
                          exc |-> st.exc, dump |-> st.dump, log |-> st.log,
                          trace |-> st.trace]
    /\ dry_run' = d
    /\ pre' = scenario
    /\ prev' = [outcome |-> result.outcome, dry_run |-> dry_run, pre |-> pre]
    /\ ncalls' = ncalls + 1
    /\ UNCHANGED <<dedup, data, fast, quiet, message>>

Next == \E d \in BOOLEAN : ApplySpec(d)

Spec == Init /\ [][Next]_vars

\* the calls made with every kind of data callable, on a de-duplicating store
\* and without the fast option
InitData ==
    /\ scenario \in InitStores
    /\ dedup = TRUE
    /\ spec \in Specs
    /\ data \in DataKinds \cup QuietDataKinds
    /\ fast = FALSE
    /\ quiet = FALSE
    /\ message = NoOption
    /\ dry_run = FALSE
    /\ pre = scenario
    /\ result = NoResult
    /\ prev = NoPrev
    /\ ncalls = 0

SpecData == InitData /\ [][Next]_vars

\* a message the caller gives
CallerMessage == "add materials"

\* stores in every transaction state: with or without a solution, checked out
\* or not, refusing the check-out or not, failing the commit or not
TxStores ==
    {[InitStore(1, TRUE) EXCEPT !.solution = t[1], !.checked_out = t[2],
                                !.locked = t[3], !.commit_fails = t[4]] :
        t \in {u \in BOOLEAN \X BOOLEAN \X BOOLEAN \X BOOLEAN : ~(u[3] /\ u[4])}}

\* the calls made on those stores, with and without a message option
InitTx ==
    /\ scenario \in TxStores
    /\ dedup = TRUE
    /\ spec \in Specs
    /\ data = "returns_rows"
    /\ fast = FALSE
    /\ quiet = FALSE
    /\ message \in {NoOption, CallerMessage}
    /\ dry_run = FALSE
    /\ pre = scenario
    /\ result = NoResult
    /\ prev = NoPrev
    /\ ncalls = 0

SpecTx == InitTx /\ [][Next]_vars

\* the calls made with specifications that also name sets the store does not
\* have, on one store with data
InitUnknown ==
    /\ scenario = InitStore(1, TRUE)
    /\ dedup = TRUE
    /\ spec \in WideSpecs
    /\ data = "None"
    /\ fast \in BOOLEAN
    /\ quiet = FALSE
    /\ message = NoOption
    /\ dry_run = FALSE
    /\ pre = scenario
    /\ result = NoResult
    /\ prev = NoPrev
    /\ ncalls = 0

SpecUnknown == InitUnknown /\ [][Next]_vars

\* the calls made in every mode (fast or not, quiet or not, with or without
\* a data callable) on stores with data
InitModes ==
    /\ scenario \in {InitStore(n, TRUE) : n \in 1..Len(IdList)}
    /\ dedup = TRUE
    /\ spec \in Specs
    /\ data \in DataKinds
    /\ fast \in BOOLEAN
    /\ quiet \in BOOLEAN
    /\ message = NoOption
    /\ dry_run = FALSE
    /\ pre = scenario
    /\ result = NoResult
    /\ prev = NoPrev
    /\ ncalls = 0

SpecModes == InitModes /\ [][Next]_vars

\* the calls made with data_ammonia.gen_data as the data callable
InitGen ==
    /\ scenario \in {InitStore(n, TRUE) : n \in 1..Len(IdList)}
    /\ dedup \in BOOLEAN
    /\ spec \in Specs
    /\ data \in GenDataKinds
    /\ fast = FALSE
    /\ quiet = FALSE
    /\ message = NoOption
    /\ dry_run = FALSE
    /\ pre = scenario
    /\ result = NoResult
    /\ prev = NoPrev
    /\ ncalls = 0

SpecGen == InitGen /\ [][Next]_vars

----------------------------------------------------------------------------
(* Vocabulary of the properties: stated on the inputs of the latest call   *)
(* (spec, options, pre) and on what it left (scenario, result).            *)

Called == result.outcome # "none"

Done == result.outcome = "done"

Failed == result.outcome = "failed"

\* position of set name S in the store's set list
Pos(S) == CHOOSE k \in 1..Len(SetList) : SetList[k] = S

\* the identifiers a list of elements names, in order
IdsOf(list) == [k \in 1..Len(list) |-> list[k].id]

\* the positions of spec.require for S whose identifier the set did not hold
AbsentAt(S) == {k \in 1..Len(spec.require[S]) : spec.require[S][k].id \notin Range(pre.set[S])}

SomeAbsent == \E S \in SetNames : AbsentAt(S) # {}

\* the first set of the set list with an absent required element
FailingSet ==
    SetList[CHOOSE k \in 1..Len(SetList) :
                /\ AbsentAt(SetList[k]) # {}
                /\ \A j \in 1..(k - 1) : AbsentAt(SetList[j]) = {}]

\* every row of a store, all tables together
RowsIn(sc) == UNION {{Row(p, key) : key \in Range(sc.par[p])} : p \in ParNames}

\* row r has identifier id in the column of set S
Refers(r, S, id) == S \in ParDims[r.par] /\ r.key[S] = id

\* the store operations op of the latest call
Issued(op) == {k \in 1..Len(result.trace) : result.trace[k].op = op}

\* total number of rows in the removed-data dump
DumpTotal == SumLen(result.dump, SetNames)

----------------------------------------------------------------------------
(* C1: a call fails with ValueError, which reaches the caller, exactly when *)
(* some element of spec.require for a set of the set list is absent from    *)
(* that set; this is so for every combination of dry_run and fast.          *)
C1_RaisesIffRequiredAbsent ==
    Called =>
        /\ SomeAbsent => (Failed /\ result.exc.type = "ValueError")
        /\ ~SomeAbsent => (Done /\ result.exc = NoExc)

\* a dry run, fast, that failed on an absent required element
C1_Witness ==
    /\ Failed /\ dry_run /\ fast
    /\ \E S \in SetNames : AbsentAt(S) # {} /\ Len(spec.require[S]) = 2

(* C2: a dry run of a spec with no required element absent leaves every set *)
(* and every parameter table of the store as it was before the call.        *)
C2_DryRunLeavesStore ==
    (Called /\ dry_run /\ ~SomeAbsent) =>
        /\ \A S \in SetNames : scenario.set[S] = pre.set[S]
        /\ \A p \in ParNames : scenario.par[p] = pre.par[p]

\* a completed dry run whose spec removes an element that rows refer to and
\* adds an element the set does not hold
C2_Witness ==
    /\ Done /\ dry_run /\ ~fast
    /\ \E S \in SetNames :
        /\ \E k \in 1..Len(spec.remove[S]) :
              \E r \in RowsIn(pre) : Refers(r, S, spec.remove[S][k].id)
    /\ \E S \in SetNames :
        /\ \E k \in 1..Len(spec.add[S]) : spec.add[S][k].id \notin Range(pre.set[S])

(* C3: under dry_run the call, completed or failed, issues no remove_solution, *)
(* no check-out and no commit, and the transaction state of the store      *)
(* (solution, checked out, committed version) is what it was before.        *)
C3_DryRunNoTransaction ==
    (Called /\ dry_run) =>
        /\ Issued("remove_solution") = {}
        /\ Issued("check_out") = {}
        /\ Issued("commit") = {}
        /\ scenario.solution = pre.solution
        /\ scenario.checked_out = pre.checked_out
        /\ scenario.version = pre.version
        /\ scenario.message = pre.message

\* a dry run that failed on a store an earlier failed call left checked out
C3_Witness ==
    /\ Failed /\ dry_run
    /\ pre.checked_out /\ ~pre.solution

(* C4: after a completed call with dry_run=false, fast=false and no data     *)
(* callback, no row of any parameter table refers to an element of          *)
(* spec.remove in the role of its set, and the dump holds exactly the rows  *)
(* deleted: each row under the set it was stripped for, once.               *)
C4_ReferentialIntegrity ==
    (Done /\ ~dry_run /\ ~fast /\ data = "None") =>
        /\ \A S \in SetNames : \A k \in 1..Len(spec.remove[S]) :
              \A r \in RowsIn(scenario) : ~Refers(r, S, spec.remove[S][k].id)
        /\ \A S \in SetNames : \A j \in 1..Len(result.dump[S]) :
              LET r == result.dump[S][j]
              IN /\ r \in RowsIn(pre) \ RowsIn(scenario)
                 /\ \E k \in 1..Len(spec.remove[S]) : Refers(r, S, spec.remove[S][k].id)
        /\ \A r \in RowsIn(pre) \ RowsIn(scenario) :
              Cardinality({<<S, j>> \in SetNames \X (1..DumpTotal) :
                              j <= Len(result.dump[S]) /\ result.dump[S][j] = r}) = 1
        /\ RowsIn(scenario) \subseteq RowsIn(pre)

\* one row referred to removed elements of two sets, another row to none
C4_Witness ==
    /\ Done /\ ~dry_run /\ ~fast /\ data = "None"
    /\ \E r \in RowsIn(pre) :
          /\ \A S \in SetNames :
                \E k \in 1..Len(spec.remove[S]) : Refers(r, S, spec.remove[S][k].id)
          /\ r \notin RowsIn(scenario)
    /\ RowsIn(scenario) # {}

(* C5: under fast no strip is issued; every row that was in a parameter     *)
(* table is still there after the call, rows referring to elements of      *)
(* spec.remove included, and the dump is empty (total removed count 0).     *)
C5_FastSkipsStrip ==
    (Called /\ fast) =>
        /\ Issued("strip_par_data") = {}
        /\ RowsIn(pre) \subseteq RowsIn(scenario)
        /\ \A S \in SetNames : result.dump[S] = <<>>
        /\ DumpTotal = 0
        /\ \A k \in 1..Len(result.log) :
              result.log[k].msg = "parameter elements removed" => result.log[k].n = 0

\* a completed fast call, not a dry run, with a stale row left in place
C5_Witness ==
    /\ Done /\ fast /\ ~dry_run
    /\ \E S \in SetNames : \E k \in 1..Len(spec.remove[S]) :
          \E r \in RowsIn(scenario) : Refers(r, S, spec.remove[S][k].id)

\* the identifiers of ids that are not in have, each at its first occurrence
RECURSIVE FirstNew(_, _)
FirstNew(ids, have) ==
    IF ids = <<>> THEN <<>>
    ELSE IF Head(ids) \in have
         THEN FirstNew(Tail(ids), have)
         ELSE <<Head(ids)>> \o FirstNew(Tail(ids), have \cup {Head(ids)})

\* sequence s without the identifiers in gone
Without(s, gone) == LET Kept(x) == x \notin gone IN SelectSeq(s, Kept)

(* C6: after a completed call with dry_run=false every set of the set list  *)
(* holds every element of spec.add by its identifier; the set is its       *)
(* earlier elements, those not listed in spec.remove all kept in their     *)
(* order, followed by the added identifiers in the order of the spec (each *)
(* one once, where new, if the store de-duplicates); the store is          *)
(* committed.  E.g. technology = [coal_ppl], add gas_ppl gives             *)
(* [coal_ppl, gas_ppl], committed, nothing removed.                        *)
C6_AddedInOrderAndCommitted ==
    (Done /\ ~dry_run) =>
        /\ \A S \in SetNames :
              LET old == pre.set[S]
                  new == scenario.set[S]
                  ids == IdsOf(spec.add[S])
                  gone == Range(IdsOf(spec.remove[S]))
              IN /\ Range(ids) \subseteq Range(new)
                 /\ \E n \in 0..Len(new) :
                       LET head == SubSeq(new, 1, n)
                           tail == SubSeq(new, n + 1, Len(new))
                       IN /\ Range(head) \subseteq Range(old)
                          /\ Without(head, gone) = Without(old, gone)
                          /\ tail = IF dedup THEN FirstNew(ids, Range(head)) ELSE ids
        /\ Issued("commit") # {}
        /\ ~scenario.checked_out
        /\ scenario.version = pre.version + 1

\* the example: technology = [coal_ppl], no parameter rows, add gas_ppl
C6_Witness ==
    /\ Done /\ ~dry_run
    /\ pre.set["technology"] = <<"coal_ppl">>
    /\ RowsIn(pre) = {}
    /\ spec.require = EmptyInfo /\ spec.remove = EmptyInfo
    /\ spec.add = [EmptyInfo EXCEPT !["technology"] = <<Str("gas_ppl")>>]
    /\ scenario.set["technology"] = <<"coal_ppl", "gas_ppl">>
    /\ ~scenario.checked_out /\ scenario.version = pre.version + 1
    /\ DumpTotal = 0

\* the spec lists nothing under require nor under remove
RequireRemoveEmpty ==
    \A S \in SetNames : spec.require[S] = <<>> /\ spec.remove[S] = <<>>

\* the latest two calls were both made with dry_run=false
TwiceInSuccession ==
    /\ ncalls >= 2
    /\ ~dry_run /\ ~prev.dry_run
    /\ RequireRemoveEmpty

(* C7: a spec with empty require and remove never makes a call fail; after *)
(* two completed calls in succession with dry_run=false a store that       *)
(* de-duplicates holds each added element once, and one that does not      *)
(* holds it as often as before the first call plus twice the number of     *)
(* times spec.add lists it (twice when it was absent and is listed once).  *)
C7_TwiceAddOnly ==
    /\ (Called /\ RequireRemoveEmpty) => Done
    /\ TwiceInSuccession =>
          \A S \in SetNames : \A k \in 1..Len(spec.add[S]) :
              LET id == spec.add[S][k].id
              IN Count(scenario.set[S], id) =
                    IF dedup THEN 1
                    ELSE Count(prev.pre.set[S], id) + 2 * Count(IdsOf(spec.add[S]), id)

\* C7 as first stated: exactly once if the store de-duplicates, else exactly twice
C7_Original ==
    TwiceInSuccession =>
        \A S \in SetNames : \A k \in 1..Len(spec.add[S]) :
            Count(scenario.set[S], spec.add[S][k].id) = IF dedup THEN 1 ELSE 2

\* a store that does not de-duplicate holds twice an element it did not hold
C7_Witness ==
    /\ TwiceInSuccession /\ ~dedup
    /\ \E S \in SetNames : \E k \in 1..Len(spec.add[S]) :
          /\ Count(prev.pre.set[S], spec.add[S][k].id) = 0
          /\ Count(scenario.set[S], spec.add[S][k].id) = 2

(* C8: when a required-element check fails for set S nothing is committed;  *)
(* S and the sets after it hold what they held; the only rows gone from    *)
(* the parameter tables are rows stripped for elements of spec.remove of   *)
(* the sets before S, in a call with dry_run=false and fast=false; no row  *)
(* is added; under dry_run all sets and tables are as found, and otherwise *)
(* the sets before S hold the elements spec.add lists for them.            *)
C8_FailureLeavesLaterSets ==
    Failed =>
        /\ scenario.version = pre.version
        /\ \A S \in SetNames : Pos(S) >= Pos(FailingSet) => scenario.set[S] = pre.set[S]
        /\ \A r \in RowsIn(pre) \ RowsIn(scenario) :
              /\ ~dry_run /\ ~fast
              /\ \E T \in SetNames :
                    /\ Pos(T) < Pos(FailingSet)
                    /\ \E k \in 1..Len(spec.remove[T]) : Refers(r, T, spec.remove[T][k].id)
        /\ RowsIn(scenario) \subseteq RowsIn(pre)
        /\ dry_run => (scenario.set = pre.set /\ scenario.par = pre.par)
        /\ ~dry_run =>
              \A T \in SetNames : Pos(T) < Pos(FailingSet) =>
                  \A k \in 1..Len(spec.add[T]) :
                      spec.add[T][k].id \in Range(scenario.set[T])

\* C8 as first stated: after a failed check no added element is in a set that
\* did not hold it and no parameter row is gone
C8_Original ==
    Failed =>
        /\ \A S \in SetNames : \A k \in 1..Len(spec.add[S]) :
              spec.add[S][k].id \in Range(scenario.set[S])
                  => spec.add[S][k].id \in Range(pre.set[S])
        /\ RowsIn(pre) \subseteq RowsIn(scenario)

\* the check failed for the second set after rows were stripped for the first
C8_Witness ==
    /\ Failed /\ ~dry_run
    /\ Pos(FailingSet) = 2
    /\ RowsIn(pre) \ RowsIn(scenario) # {}

(* C9: when the check fails for set S in a call with dry_run=false, no      *)
(* commit is issued and the store stays checked out; the sets after S are  *)
(* neither read nor changed; no unit is registered; the data callback is   *)
(* not called; what was added and stripped for the sets before S stays.    *)
C9_NoCommitNoRollback ==
    (Failed /\ ~dry_run) =>
        /\ Issued("commit") = {}
        /\ scenario.version = pre.version
        /\ scenario.checked_out
        /\ \A S \in SetNames : Pos(S) > Pos(FailingSet) =>
              /\ \A k \in 1..Len(result.trace) : result.trace[k].set # S
              /\ scenario.set[S] = pre.set[S]
        /\ Issued("add_unit") = {} /\ scenario.units = pre.units
        /\ Issued("data") = {} /\ Issued("add_par_data") = {}
        /\ \A T \in SetNames : Pos(T) < Pos(FailingSet) =>
              /\ \A k \in 1..Len(spec.add[T]) :
                    /\ spec.add[T][k].id \in Range(scenario.set[T])
                    /\ \E j \in Issued("add_set") :
                          /\ result.trace[j].set = T
                          /\ result.trace[j].id = spec.add[T][k].id
              /\ SubSeq(scenario.set[T], 1, Len(pre.set[T])) = pre.set[T]
              /\ ~fast => \A k \in 1..Len(spec.remove[T]) :
                    /\ \A r \in RowsIn(scenario) : ~Refers(r, T, spec.remove[T][k].id)
                    /\ \A r \in RowsIn(pre) :
                          Refers(r, T, spec.remove[T][k].id) => r \in Range(result.dump[T])

\* the check failed for the second set, a data callback was given, and the
\* element added to the first set is in the store
C9_Witness ==
    /\ Failed /\ ~dry_run /\ data # "None"
    /\ Pos(FailingSet) = 2
    /\ \E k \in 1..Len(spec.add[SetList[1]]) :
          /\ spec.add[SetList[1]][k].id \notin Range(pre.set[SetList[1]])
          /\ spec.add[SetList[1]][k].id \in Range(scenario.set[SetList[1]])

\* the first element of spec.require for the failing set that the set lacked
FirstAbsent ==
    spec.require[FailingSet][CHOOSE k \in AbsentAt(FailingSet) :
                                \A j \in AbsentAt(FailingSet) : k <= j]

\* the positions of the log records with text msg
LogAt(msg) == {k \in 1..Len(result.log) : result.log[k].msg = msg}

(* C10: the ValueError raised by the required-element check carries no     *)
(* argument; the first absent element of spec.require for the set being    *)
(* processed is named by the error record logged last, just before the     *)
(* raise, the only error record of the call; the set is named by the       *)
(* latest "Set" record at info level, which is emitted unless the call is  *)
(* quiet: a quiet call logs the error record and nothing else.             *)
C10_ErrorNamesFirstAbsent ==
    Failed =>
        /\ result.exc.type = "ValueError" /\ result.exc.args = <<>>
        /\ Len(result.log) > 0
        /\ LET last == result.log[Len(result.log)]
           IN /\ last.level = "error"
              /\ last.msg = "not found"
              /\ last.elem = FirstAbsent
              /\ last.set = NoId
        /\ Cardinality({k \in 1..Len(result.log) : result.log[k].level = "error"}) = 1
        /\ ~quiet =>
              /\ LogAt("Set") # {}
              /\ LET k == CHOOSE i \in LogAt("Set") : \A j \in LogAt("Set") : i >= j
                 IN result.log[k].set = FailingSet /\ result.log[k].level = "info"
        /\ quiet => Len(result.log) = 1

\* C10 as first stated: the failure carries the set name and the identifier
C10_Original ==
    Failed => result.exc.args = <<FailingSet, FirstAbsent.id>>

\* two different required elements were absent from the failing set
C10_Witness ==
    /\ Failed /\ quiet
    /\ \E i, j \in AbsentAt(FailingSet) :
          i < j /\ spec.require[FailingSet][i] # spec.require[FailingSet][j]

-----------------------------------------------------------------------------
\* the registry entry the unit registration makes of an entry of spec.add
\* for "unit": a Code gives its name as the comment, a bare string itself
UnitEntry(u) == [id |-> u.id, comment |-> IF u.isCode THEN u.name ELSE u.id]

UnitEntries == {UnitEntry(spec.add["unit"][k]) : k \in 1..Len(spec.add["unit"])}

(* C11: after a completed call the unit registry holds, for every entry of *)
(* spec.add for "unit", an entry with the entry's identifier and, as its   *)
(* comment, the name of the Code; a bare string counts as a Code whose     *)
(* name is its identifier, so its comment equals its identifier.           *)
C11_UnitsRegistered ==
    Done => \A k \in 1..Len(spec.add["unit"]) :
                LET u == spec.add["unit"][k]
                IN \E e \in scenario.units :
                       /\ e.id = u.id
                       /\ e.comment = IF u.isCode THEN u.name ELSE u.id

\* a Code and a bare string were registered, each with its own comment
C11_Witness ==
    /\ Done
    /\ spec.add["unit"] = <<MkCode("kg_CO2", "kilograms of CO2"), Str("kg_CO2")>>
    /\ pre.units = {}
    /\ scenario.units = {[id |-> "kg_CO2", comment |-> "kilograms of CO2"],
                         [id |-> "kg_CO2", comment |-> "kg_CO2"]}

\* the identifiers handed to add_unit by the latest call, in order
UnitsIssued ==
    LET IsUnit(t) == t.op = "add_unit"
        ops == SelectSeq(result.trace, IsUnit)
    IN [k \in 1..Len(ops) |-> ops[k].id]

(* C12: a call that completes with dry_run=true has registered every unit  *)
(* of spec.add for "unit", exactly as a call with dry_run=false does: one  *)
(* add_unit per entry, in the order of the list, and the registry is what  *)
(* it was plus those entries, whatever dry_run is.                          *)
C12_UnitsUnderDryRun ==
    Done =>
        /\ UnitsIssued = IdsOf(spec.add["unit"])
        /\ scenario.units = pre.units \cup UnitEntries

\* a dry run registered a unit in a registry that was empty
C12_Witness ==
    /\ Done /\ dry_run
    /\ spec.add["unit"] # <<>>
    /\ pre.units = {}
    /\ scenario.units = UnitEntries
    /\ scenario.set = pre.set /\ scenario.version = pre.version

-----------------------------------------------------------------------------
\* the operations of the latest call on the sets and the unit registry
SetAndUnitOps ==
    {k \in 1..Len(result.trace) :
        result.trace[k].op \in {"set", "strip_par_data", "add_set", "add_unit"}}

(* C13: in a completed call a callable data is invoked exactly once, with   *)
(* the dry_run flag of the call, after every set was processed and every    *)
(* unit registered and before the commit; add_par_data is invoked exactly   *)
(* once, right after it and with the same flag, when the result is a        *)
(* non-empty mapping (whose rows a call with dry_run=false then merges),    *)
(* and not at all when the result is nothing or an empty mapping; without   *)
(* a callable neither is invoked.                                           *)
C13_DataCallbackProtocol ==
    Done =>
        /\ data = "None" => Issued("data") = {} /\ Issued("add_par_data") = {}
        /\ data # "None" =>
              /\ Cardinality(Issued("data")) = 1
              /\ \A k \in Issued("data") :
                    /\ result.trace[k].dry_run = dry_run
                    /\ \A j \in SetAndUnitOps : j < k
                    /\ \A j \in Issued("commit") : k < j
        /\ data \in QuietDataKinds => Issued("add_par_data") = {}
        /\ data = "returns_rows" =>
              /\ Cardinality(Issued("add_par_data")) = 1
              /\ \A k \in Issued("add_par_data") :
                    /\ result.trace[k].dry_run = dry_run
                    /\ k - 1 \in Issued("data")
                    /\ \A j \in Issued("commit") : k < j
              /\ ~dry_run =>
                    Row("output", Key("output", "gas_ppl", "gas_ppl")) \in RowsIn(scenario)

\* a callable that returned an empty mapping was called once, after a set
\* mutation and a unit registration and before the commit, and nothing was merged
C13_Witness ==
    /\ Done /\ ~dry_run
    /\ data = "returns_empty"
    /\ Cardinality(Issued("data")) = 1
    /\ Issued("add_set") # {} /\ Issued("add_unit") # {}
    /\ Issued("add_par_data") = {}
    /\ Issued("commit") # {}

-----------------------------------------------------------------------------
\* the last store operation of the latest call
LastOp == result.trace[Len(result.trace)]

(* C14: a call with dry_run=false that does not fail invokes commit exactly *)
(* once, as its last store operation (after every set mutation, unit       *)
(* registration, data callback and merge), with the message option of the  *)
(* caller when one is given and otherwise with the default message that    *)
(* names apply_spec.                                                        *)
C14_SingleFinalCommit ==
    (Done /\ ~dry_run) =>
        /\ Cardinality(Issued("commit")) = 1
        /\ LastOp.op = "commit"
        /\ LastOp.id = (IF message = NoOption
                        THEN "message_ix_models.model.material.build.apply_spec()"
                        ELSE message)
        /\ scenario.message = LastOp.id
        /\ scenario.version = pre.version + 1
        /\ ~scenario.checked_out

\* a call given a message mutated a set, registered a unit, merged the rows
\* of the callback and committed last, under that message
C14_Witness ==
    /\ Done /\ ~dry_run
    /\ message = CallerMessage
    /\ Issued("add_set") # {} /\ Issued("add_unit") # {} /\ Issued("add_par_data") # {}
    /\ LastOp.op = "commit"
    /\ scenario.message = CallerMessage

-----------------------------------------------------------------------------
\* the positions of the latest call's reads and mutations of sets
SetOps ==
    {k \in 1..Len(result.trace) :
        result.trace[k].op \in {"set", "strip_par_data", "add_set"}}

\* the store the latest call began with, were it solved and not checked out
PreFresh == [pre EXCEPT !.solution = TRUE, !.checked_out = FALSE]

(* C15: a call with dry_run=false invokes discard-solution and then        *)
(* check-out before it reads or mutates any set; a store without a         *)
(* solution does not make it fail; a store already checked out is accepted *)
(* and the call ends in the same committed state as on the store solved    *)
(* and not checked out.                                                     *)
C15_PreparationFirst ==
    (Called /\ ~dry_run) =>
        /\ Len(result.trace) >= 2
        /\ result.trace[1].op = "remove_solution"
        /\ result.trace[2].op = "check_out"
        /\ \A k \in SetOps : k > 2
        /\ (~(pre.locked /\ ~pre.checked_out) /\ ~pre.commit_fails /\ ~SomeAbsent) =>
              /\ Done
              /\ ~scenario.solution /\ ~scenario.checked_out
              /\ scenario.version = pre.version + 1
        /\ (~pre.locked /\ ~pre.commit_fails /\ ~SomeAbsent) =>
                scenario =
                    ApplySpecCall(PreFresh, spec, data,
                                  [dry_run |-> FALSE, fast |-> fast, quiet |-> quiet,
                                   message |-> message], dedup).sc

\* a store without a solution and already checked out was taken: the call
\* read a set after the preparation and committed
C15_Witness ==
    /\ Done /\ ~dry_run
    /\ ~pre.solution /\ pre.checked_out
    /\ SetOps # {}
    /\ ~scenario.checked_out /\ scenario.version = pre.version + 1

(* C18: the errors of the store reach the caller: when the check-out is    *)
(* refused the call fails with the store's error and no set, parameter     *)
(* table or unit registry entry has been mutated; when the commit fails    *)
(* the call fails with the store's error; the one error not passed on is   *)
(* the signal of discard-solution that there is no solution.               *)
C18_StoreErrorsPropagate ==
    (Called /\ ~dry_run) =>
        /\ (pre.locked /\ ~pre.checked_out) =>
              /\ Failed
              /\ result.exc = [type |-> "CheckOutError", args |-> <<>>]
              /\ scenario.set = pre.set
              /\ scenario.par = pre.par
              /\ scenario.units = pre.units
              /\ SetAndUnitOps = {} /\ Issued("data") = {}
        /\ (pre.commit_fails /\ ~SomeAbsent) =>
              /\ Failed
              /\ result.exc = [type |-> "CommitError", args |-> <<>>]
              /\ scenario.version = pre.version
        /\ (~pre.solution /\ ~SomeAbsent /\ ~pre.commit_fails
                /\ ~(pre.locked /\ ~pre.checked_out)) => Done

\* a commit failed after a set was mutated and its error reached the caller
C18_Witness ==
    /\ Failed /\ ~dry_run
    /\ pre.commit_fails
    /\ result.exc.type = "CommitError"
    /\ Issued("add_set") # {} /\ Issued("commit") # {}

-----------------------------------------------------------------------------
\* the entries of the specification under names the store knows, and the
\* units to add
KnownPart ==
    LET Known(part) ==
            [n \in SpecNames |->
                IF n \in SetNames \/ (n = "unit" /\ part = "add")
                THEN spec[part][n] ELSE <<>>]
    IN [require |-> Known("require"), remove |-> Known("remove"),
        add |-> Known("add"), keys |-> spec.keys]

(* C16: a set name of spec.require, spec.remove or spec.add that is not in *)
(* the set list of the store (and is not "unit" under spec.add) is passed  *)
(* over: nothing is checked, stripped or appended for it and it does not   *)
(* make the call fail, not even as a required element that exists nowhere; *)
(* the call ends as the call without those entries does.                    *)
C16_UnknownSetsIgnored ==
    Called =>
        /\ \A k \in 1..Len(result.trace) :
              /\ result.trace[k].set \notin UnknownNames
              /\ result.trace[k].set = "unit" => result.trace[k].op = "add_unit"
        /\ \A k \in 1..Len(result.log) : result.log[k].set \notin UnknownNames \cup {"unit"}
        /\ Failed <=> SomeAbsent
        /\ LET st == ApplySpecCall(pre, KnownPart, data,
                                   [dry_run |-> dry_run, fast |-> fast, quiet |-> quiet,
                                    message |-> message], dedup)
           IN /\ scenario = st.sc
              /\ result.dump = st.dump
              /\ result.log = st.log
              /\ result.trace = st.trace

\* a call completed and appended to a known set although the specification
\* requires, under an unknown name, an element no set of the store holds
C16_Witness ==
    /\ Done /\ ~dry_run
    /\ spec.require["node"] = <<Str("gas_ppl")>>
    /\ \A S \in SetNames : "gas_ppl" \notin Range(pre.set[S])
    /\ spec.add["technology"] # <<>>
    /\ Issued("add_set") # {}

-----------------------------------------------------------------------------
\* the latest call was made with dry_run=false right after a call with
\* dry_run=true that completed (same spec, same options, same store)
AfterCompletedDryRun ==
    /\ ncalls >= 2
    /\ prev.dry_run /\ prev.outcome = "done"
    /\ ~dry_run

(* C17: when a call with dry_run=true completes without raising, the call  *)
(* with dry_run=false made right after it on the same store, with the same *)
(* spec and options, does not fail with the required-element error.         *)
C17_DryRunValidates ==
    AfterCompletedDryRun =>
        /\ result.exc # [type |-> "ValueError", args |-> <<>>]
        /\ LogAt("not found") = {}
        /\ Done

\* a spec with a required element passed the dry run and was then applied
C17_Witness ==
    /\ AfterCompletedDryRun
    /\ Done
    /\ \E S \in SetNames : spec.require[S] # <<>> /\ spec.add[S] # <<>>
    /\ Issued("add_set") # {}
    /\ scenario.version = pre.version + 1

-----------------------------------------------------------------------------
\* the sets of the set list that come before S
Before(S) == {SetList[k] : k \in 1..(Pos(S) - 1)}

\* some set lists an element both as required and to add that it did not hold
RequiredAndAddedAbsent ==
    \E S \in SetNames : \E k \in AbsentAt(S) :
        spec.require[S][k].id \in Range(IdsOf(spec.add[S]))

(* C19: the required elements of a set are all checked before anything is *)
(* stripped or appended for it: when the check fails for a set, no strip   *)
(* and no append was issued for that set, its contents are as before the   *)
(* call, and every row referencing an element of spec.remove for it is     *)
(* still there unless the processing of an earlier set removed it; an      *)
(* absent element listed under both spec.require and spec.add for a set    *)
(* makes the call fail all the same.                                        *)
C19_CheckBeforeRemoveAndAdd ==
    /\ Failed =>
          /\ \A k \in Issued("strip_par_data") \cup Issued("add_set") :
                result.trace[k].set # FailingSet
          /\ LastOp = [op |-> "set", set |-> FailingSet, id |-> NoId, dry_run |-> FALSE]
          /\ scenario.set[FailingSet] = pre.set[FailingSet]
          /\ result.dump[FailingSet] = <<>>
          /\ \A r \in RowsIn(pre) \ RowsIn(scenario) :
                \E T \in Before(FailingSet) : r \in Range(result.dump[T])
    /\ (Called /\ RequiredAndAddedAbsent) => Failed

\* a call failed on a set with an element to remove: no strip was issued for
\* it and the rows of that element are still in their table
C19_Witness ==
    /\ Failed /\ ~dry_run /\ ~fast
    /\ spec.remove[FailingSet] # <<>>
    /\ \E r \in RowsIn(scenario) : Refers(r, FailingSet, spec.remove[FailingSet][1].id)
    /\ Issued("strip_par_data") = {}
    /\ scenario.set[FailingSet] = pre.set[FailingSet]

-----------------------------------------------------------------------------
\* the identifiers listed under both spec.remove and spec.add for S
RemovedAndAdded(S) == Range(IdsOf(spec.remove[S])) \cap Range(IdsOf(spec.add[S]))

\* every strip of the latest call for a set came before every append to it
StripsBeforeAppends ==
    \A i \in Issued("strip_par_data") : \A j \in Issued("add_set") :
        result.trace[i].set = result.trace[j].set => i < j

\* the rows the data callable of the calls returns
CallbackRows ==
    IF data = "returns_rows"
    THEN {Row("output", Key("output", "gas_ppl", "gas_ppl"))}
    ELSE {}

\* C20 as stated: ... and none of the rows that referenced such an element
\* before the call remain
C20_Original ==
    (Done /\ ~dry_run /\ ~fast) =>
        /\ StripsBeforeAppends
        /\ \A S \in SetNames : \A id \in RemovedAndAdded(S) :
              /\ id \in Range(scenario.set[S])
              /\ \A r \in RowsIn(pre) : Refers(r, S, id) => r \notin RowsIn(scenario)

(* C20: in a completed call with dry_run=false and fast=false every strip  *)
(* of an element of spec.remove for a set is issued before any append of   *)
(* spec.add to that set; an element listed under both is in the set after  *)
(* the call, every row that referenced it before the call was stripped,    *)
(* and such a row is in its table afterwards only if the data callable     *)
(* returned it, to be merged after the sets were processed.                 *)
C20_StripBeforeAdd ==
    (Done /\ ~dry_run /\ ~fast) =>
        /\ StripsBeforeAppends
        /\ \A S \in SetNames : \A id \in RemovedAndAdded(S) :
              /\ id \in Range(scenario.set[S])
              /\ \A r \in RowsIn(pre) :
                    Refers(r, S, id) =>
                        /\ \E T \in SetNames : r \in Range(result.dump[T])
                        /\ r \in RowsIn(scenario) => r \in CallbackRows

\* an element with rows was removed and added again: it is in the set and
\* its rows are gone
C20_Witness ==
    /\ Done /\ ~dry_run /\ ~fast
    /\ \E S \in SetNames : \E id \in RemovedAndAdded(S) :
          /\ \E r \in RowsIn(pre) : Refers(r, S, id)
          /\ \A r \in RowsIn(scenario) : ~Refers(r, S, id)
          /\ id \in Range(scenario.set[S])
    /\ Issued("strip_par_data") # {} /\ Issued("add_set") # {}

-----------------------------------------------------------------------------
\* the sets of the set list for which the specification lists no element
Unmentioned ==
    {S \in SetNames :
        spec.require[S] = <<>> /\ spec.remove[S] = <<>> /\ spec.add[S] = <<>>}

(* C21: a set of the set list for which spec.require, spec.remove and      *)
(* spec.add together list no element is skipped: the call does not read    *)
(* it, logs nothing for it, strips and appends nothing for it, and leaves  *)
(* its contents and the tables keyed by that set alone as they were.       *)
C21_RelevanceFilter ==
    Called =>
        \A S \in Unmentioned :
            /\ \A k \in 1..Len(result.trace) : result.trace[k].set # S
            /\ \A k \in 1..Len(result.log) : result.log[k].set # S
            /\ result.dump[S] = <<>>
            /\ scenario.set[S] = pre.set[S]
            /\ \A p \in ParNames : ParDims[p] = {S} => scenario.par[p] = pre.par[p]

\* "technology" was stripped and appended to while "commodity", unmentioned,
\* was passed over with its demand rows
C21_Witness ==
    /\ Done /\ ~dry_run /\ ~fast
    /\ Unmentioned = {"commodity"}
    /\ Issued("strip_par_data") # {} /\ Issued("add_set") # {}
    /\ pre.par["demand"] # <<>>
    /\ scenario.par["demand"] = pre.par["demand"]
    /\ scenario.par["output"] # pre.par["output"]

-----------------------------------------------------------------------------
\* the identifiers listed under spec.remove for S and not under spec.add for S
RemovedOnly(S) == Range(IdsOf(spec.remove[S])) \ Range(IdsOf(spec.add[S]))

(* C22: after a completed call with dry_run=false and fast=false no        *)
(* element listed under spec.remove for a set of the set list, and not     *)
(* under spec.add for it, is a member of that set any more.  The call      *)
(* strips the rows of such an element and leaves the element in its set.   *)
C22_Original ==
    (Done /\ ~dry_run /\ ~fast) =>
        \A S \in SetNames : \A id \in RemovedOnly(S) : id \notin Range(scenario.set[S])

-----------------------------------------------------------------------------
\* what the call with dry_run=true, on the store and with the spec and the
\* options of the latest call, ends in
AsDryRun ==
    ApplySpecCall(pre, spec, data,
                  [dry_run |-> TRUE, fast |-> fast, quiet |-> quiet, message |-> message],
                  dedup)

\* the counts a log reports: the records that carry a number, in order
Counts(log) ==
    LET HasCount(rec) ==
            rec.msg \in {"Check required elements", "Add element(s)",
                         "parameter elements removed"}
        recs == SelectSeq(log, HasCount)
    IN [k \in 1..Len(recs) |-> <<recs[k].msg, recs[k].n>>]

\* the elements a log reports as removed, in order
Removals(log) ==
    LET IsRemove(rec) == rec.msg = "Remove"
        recs == SelectSeq(log, IsRemove)
    IN [k \in 1..Len(recs) |-> recs[k].elem]

(* C23: for the same store and spec, with fast=false and no required       *)
(* element missing, the ledger of removed rows built with dry_run=true is  *)
(* equal, per set and in total, to the one built with dry_run=false, and   *)
(* the counts of required, removed and added elements reported are equal,  *)
(* also when one row references elements of two sets both listed under     *)
(* spec.remove.  With such a row the dry run records it once for each of   *)
(* the two sets, the real run once.                                         *)
C23_Original ==
    (Done /\ ~dry_run /\ ~fast) =>
        /\ AsDryRun.exc = NoExc
        /\ \A S \in SetNames : AsDryRun.dump[S] = result.dump[S]
        /\ SumLen(AsDryRun.dump, SetNames) = DumpTotal
        /\ Counts(AsDryRun.log) = Counts(result.log)
        /\ Removals(AsDryRun.log) = Removals(result.log)

-----------------------------------------------------------------------------
\* the total the latest call reported as removed
ReportedTotal ==
    LET k == CHOOSE j \in LogAt("parameter elements removed") : TRUE
    IN result.log[k].n

\* the rows the call before the latest one deleted
StrippedBefore == RowsIn(prev.pre) \ RowsIn(pre)

(* C24: the ledger of removed rows belongs to one call: every call starts  *)
(* with an empty ledger, so what a call records for a set are rows that    *)
(* were in the store when it began and that its own strips for that set    *)
(* found, nothing without such a strip, and never a row an earlier call    *)
(* stripped; the total it reports is the sum over that ledger.             *)
C24_LedgerCallLocal ==
    Called =>
        /\ \A S \in SetNames :
              /\ (\A k \in Issued("strip_par_data") : result.trace[k].set # S)
                    => result.dump[S] = <<>>
              /\ \A r \in Range(result.dump[S]) :
                    /\ r \in RowsIn(pre)
                    /\ \E k \in Issued("strip_par_data") :
                          /\ result.trace[k].set = S
                          /\ Refers(r, S, result.trace[k].id)
              /\ ncalls >= 2 => Range(result.dump[S]) \cap StrippedBefore = {}
        /\ Done => ReportedTotal = DumpTotal

\* a second call repeated the strips of the first, which had deleted the
\* rows: its ledger is empty and it reports 0
C24_Witness ==
    /\ ncalls = 2
    /\ Done /\ ~dry_run /\ ~fast
    /\ prev.outcome = "done" /\ ~prev.dry_run
    /\ StrippedBefore # {}
    /\ Issued("strip_par_data") # {}
    /\ DumpTotal = 0 /\ ReportedTotal = 0

-----------------------------------------------------------------------------
(* C25: no call changes the specification it is given: spec.require,       *)
(* spec.remove and spec.add have the same set names with the same elements *)
(* in the same order after the call as before, in every mode, whether the  *)
(* call completes or fails, and also when a bare string listed as a unit   *)
(* is promoted to a Code for its registration.  The lookups of lines 72    *)
(* and 134 give an entry to names that had none: the set names change.     *)
C25_Original == [][spec' = spec]_vars

-----------------------------------------------------------------------------
\* what the call with the other value of quiet, on the store and with the
\* spec and the other options of the latest call, ends in
OtherQuiet ==
    ApplySpecCall(pre, spec, data,
                  [dry_run |-> dry_run, fast |-> fast, quiet |-> ~quiet,
                   message |-> message], dedup)

\* the records of a log at the levels info and debug
Progress(log) == {k \in 1..Len(log) : log[k].level \in {"info", "debug"}}

(* C26: with quiet=true a call emits no log record at the levels info and  *)
(* debug, yet the error record naming the missing required element is     *)
(* still emitted, last, before the failure reaches the caller; with        *)
(* quiet=false the progress records are emitted; the store, the ledger,    *)
(* the operations issued and the error are the same for both values.       *)
C26_QuietMode ==
    Called =>
        /\ quiet => Progress(result.log) = {}
        /\ ~quiet =>
              /\ Progress(result.log) # {}
              /\ Done => LogAt("Commit results.") # {}
              /\ \A S \in SetNames \ Unmentioned :
                    (Done \/ Pos(S) <= Pos(FailingSet)) =>
                        \E k \in LogAt("Set") : result.log[k].set = S
        /\ Failed =>
              /\ result.log # <<>>
              /\ LET last == result.log[Len(result.log)]
                 IN /\ last.level = "error" /\ last.msg = "not found"
                    /\ last.elem = FirstAbsent
              /\ quiet => Len(result.log) = 1
        /\ OtherQuiet.sc = scenario
        /\ OtherQuiet.dump = result.dump
        /\ OtherQuiet.exc = result.exc
        /\ OtherQuiet.trace = result.trace

\* a quiet call failed: its log holds the error record alone
C26_Witness ==
    /\ Failed /\ quiet /\ ~dry_run
    /\ Len(result.log) = 1
    /\ result.log[1].level = "error"
    /\ result.log[1].elem = FirstAbsent
    /\ Len(OtherQuiet.log) > 1

-----------------------------------------------------------------------------
\* the number of rows in the parameter tables of a store
NRows(sc) == SumLen(sc.par, ParNames)

\* the rows of the ledger of the latest call, set by set
DumpRows == UNION {Range(result.dump[S]) : S \in SetNames}

(* C27: after a completed call with dry_run=false, fast=false and no data  *)
(* callable the total removed (the sum of the lengths of the ledger's      *)
(* lists, which the call reports) is the number of rows before the call    *)
(* minus the number after it: the ledger holds every deleted row, and      *)
(* each one once.                                                           *)
C27_LedgerAccounting ==
    (Done /\ ~dry_run /\ ~fast /\ data = "None") =>
        /\ DumpTotal = NRows(pre) - NRows(scenario)
        /\ ~quiet => ReportedTotal = NRows(pre) - NRows(scenario)
        /\ DumpRows = RowsIn(pre) \ RowsIn(scenario)
        /\ Cardinality(DumpRows) = DumpTotal

\* elements of both sets were removed from a store whose rows reference
\* both: each deleted row is in the ledger once
C27_Witness ==
    /\ Done /\ ~dry_run /\ ~fast /\ data = "None" /\ ~quiet
    /\ \A S \in SetNames : spec.remove[S] # <<>> /\ result.dump[S] # <<>>
    /\ NRows(pre) = 6
    /\ DumpTotal >= 3
    /\ ReportedTotal = NRows(pre) - NRows(scenario)

-----------------------------------------------------------------------------
\* what the call with fast=false, on the store and with the spec and the
\* other options of the latest call, ends in
NotFast ==
    ApplySpecCall(pre, spec, data,
                  [dry_run |-> dry_run, fast |-> FALSE, quiet |-> quiet,
                   message |-> message], dedup)

\* the identifiers the latest call handed to add_set for S, in order
AppendedTo(S) ==
    LET IsAdd(t) == t.op = "add_set" /\ t.set = S
        ops == SelectSeq(result.trace, IsAdd)
    IN [k \in 1..Len(ops) |-> ops[k].id]

(* C28: fast=true changes the stripping only: the required elements of     *)
(* every mentioned set are still checked and a missing one still fails     *)
(* the call; a completed call with dry_run=false still appends every       *)
(* element of spec.add, registers the units, invokes the data callable and *)
(* commits; a set has the members it has after the call with fast=false,   *)
(* and the elements listed under spec.remove are kept.                      *)
C28_FastOnlySkipsStrip ==
    (Called /\ fast) =>
        /\ Issued("strip_par_data") = {}
        /\ Failed <=> SomeAbsent
        /\ Failed <=> NotFast.exc # NoExc
        /\ \A S \in SetNames \ Unmentioned :
              (Done \/ Pos(S) <= Pos(FailingSet)) =>
                  \E k \in Issued("set") : result.trace[k].set = S
        /\ Done => UnitsIssued = IdsOf(spec.add["unit"])
        /\ (Done /\ data # "None") => Cardinality(Issued("data")) = 1
        /\ (Done /\ ~dry_run) =>
              /\ \A S \in SetNames :
                    /\ AppendedTo(S) = IdsOf(spec.add[S])
                    /\ Range(IdsOf(spec.add[S])) \subseteq Range(scenario.set[S])
                    /\ \A id \in Ids \ Range(IdsOf(spec.remove[S])) :
                          id \in Range(scenario.set[S]) <=> id \in Range(NotFast.sc.set[S])
                    /\ \A id \in Range(IdsOf(spec.remove[S])) \cap Range(pre.set[S]) :
                          id \in Range(scenario.set[S])
              /\ Cardinality(Issued("commit")) = 1
              /\ scenario.version = pre.version + 1

\* a fast call checked a required element, kept the element to remove and
\* its rows, appended, registered no less than without fast, and committed
C28_Witness ==
    /\ Done /\ fast /\ ~dry_run
    /\ data = "returns_rows" /\ Issued("data") # {}
    /\ \E S \in SetNames :
          /\ spec.remove[S] # <<>>
          /\ spec.remove[S][1].id \in Range(scenario.set[S])
          /\ \E r \in RowsIn(scenario) : Refers(r, S, spec.remove[S][1].id)
    /\ Issued("add_set") # {}
    /\ Issued("commit") # {}

-----------------------------------------------------------------------------
(* C30: gen_data used as the data callable honours dry_run: called with    *)
(* dry_run=true it appends to no set of the scenario (not to "technology", *)
(* not to "cat_tec") and does not commit, so a call of apply_spec with     *)
(* dry_run=true and data=gen_data leaves the sets as they were.  gen_data  *)
(* does not consult dry_run: once it reaches lines 278-288 it appends all  *)
(* the same, whether it then returns or raises.                             *)
C30_Original ==
    (Called /\ dry_run /\ data \in GenDataKinds) =>
        /\ Issued("add_set") = {}
        /\ scenario.set = pre.set
        /\ scenario.cat_tec = pre.cat_tec
        /\ Issued("commit") = {}
        /\ scenario.version = pre.version

====
